---- MODULE Spec2Model ----
(***************************************************************************)
(* zeal-cli-rs: the `search` command of src/main.rs.                       *)
(*                                                                         *)
(* main resolves the docset path, search_docset opens the docset's SQLite  *)
(* index (Contents/Resources/docSet.dsidx), reads the rows of searchIndex, *)
(* ranks them (list mode: sort by name; fuzzy mode: LIKE pre-filter, then  *)
(* parallel fuzzy scoring, then a sort by score), prints one line per      *)
(* result and returns the count; main reports the outcome.                 *)
(*                                                                         *)
(* Strings are sequences of one-character strings, so that lowercasing,    *)
(* byte-wise comparison, LIKE and subsequence matching are computed.       *)
(***************************************************************************)
EXTENDS Integers, Sequences, FiniteSets, TLC

\* ---------------------------------------------------------------- bounds
\* The largest number of rows of the searchIndex table.
MaxRows == 3
\* Fuzzy scores range over 0..MaxScore.
MaxScore == 1

\* ------------------------------------------------------------ characters
LowerLetters ==
  << "a","b","c","d","e","f","g","h","i","j","k","l","m",
     "n","o","p","q","r","s","t","u","v","w","x","y","z" >>

UpperLetters ==
  << "A","B","C","D","E","F","G","H","I","J","K","L","M",
     "N","O","P","Q","R","S","T","U","V","W","X","Y","Z" >>

Chars ==
  {LowerLetters[i] : i \in 1..26} \cup {UpperLetters[i] : i \in 1..26} \cup {"%", "_"}

\* The byte value of a character (String::cmp compares bytes).
Code ==
  [c \in Chars |->
     IF c = "%" THEN 37
     ELSE IF c = "_" THEN 95
     ELSE IF \E i \in 1..26 : UpperLetters[i] = c
       THEN 64 + (CHOOSE i \in 1..26 : UpperLetters[i] = c)
       ELSE 96 + (CHOOSE i \in 1..26 : LowerLetters[i] = c)]

IsUpperChar(c) == Code[c] >= 65 /\ Code[c] <= 90

\* char::to_lowercase / to_ascii_lowercase on the characters of the model.
LowerChar(c) == IF IsUpperChar(c) THEN LowerLetters[Code[c] - 64] ELSE c

\* str::to_lowercase
to_lowercase(s) == [i \in 1..Len(s) |-> LowerChar(s[i])]

\* Ordering::Less of String::cmp: lexicographic on bytes.
RECURSIVE StrLess(_, _)
StrLess(a, b) ==
  IF b = <<>> THEN FALSE
  ELSE IF a = <<>> THEN TRUE
  ELSE IF Code[Head(a)] < Code[Head(b)] THEN TRUE
  ELSE IF Code[Head(a)] > Code[Head(b)] THEN FALSE
  ELSE StrLess(Tail(a), Tail(b))

\* SQL NULL in a column of a row.
NULL == <<"NULL">>

\* ------------------------------------------------------------- type_icon
\* The string arms of the match in type_icon, keyed by the lowercased kind.
GlyphTable ==
  ( <<"g","u","i","d","e">> :> <<"Green:guide">> ) @@
  ( <<"s","e","c","t","i","o","n">> :> <<"Yellow:section">> ) @@
  ( <<"f","u","n","c","t","i","o","n">> :> <<"Cyan:function">> ) @@
  ( <<"m","e","t","h","o","d">> :> <<"Blue:method">> ) @@
  ( <<"c","l","a","s","s">> :> <<"Purple:class">> ) @@
  ( <<"s","t","r","u","c","t">> :> <<"Red:struct">> ) @@
  ( <<"_","s","t","r","u","c","t">> :> <<"Red:struct">> ) @@
  ( <<"e","n","u","m">> :> <<"Purple:enum">> ) @@
  ( <<"c","o","n","s","t","a","n","t">> :> <<"Blue:constant">> ) @@
  ( <<"p","r","o","p","e","r","t","y">> :> <<"Yellow:property">> ) @@
  ( <<"m","a","c","r","o">> :> <<"Cyan:macro">> ) @@
  ( <<"i","n","t","e","r","f","a","c","e">> :> <<"Purple:interface">> ) @@
  ( <<"t","y","p","e","d","e","f">> :> <<"Cyan:type">> ) @@
  ( <<"t","y","p","e">> :> <<"Cyan:type">> ) @@
  ( <<"a","t","t","r","i","b","u","t","e">> :> <<"Yellow:attribute">> ) @@
  ( <<"e","v","e","n","t">> :> <<"Cyan:event">> ) @@
  ( <<"v","a","r","i","a","b","l","e">> :> <<"Blue:variable">> ) @@
  ( <<"m","o","d","u","l","e">> :> <<"Yellow:module">> ) @@
  ( <<"c","o","n","s","t","r","u","c","t","o","r">> :> <<"Red:constructor">> )

\* type_icon(type_): the painted glyph of the lowercased kind, or the fallback
\* arm `other => other.to_string()`, where `other` binds the matched value,
\* that is, the lowercased string.
type_icon(type_) ==
  LET other == to_lowercase(type_)
  IN  IF other \in DOMAIN GlyphTable THEN GlyphTable[other] ELSE other

\* ------------------------------------------------------- SQLite LIKE
\* X LIKE P of SQLite: % matches any run of characters, _ any one character,
\* other characters match case-insensitively (ASCII).
RECURSIVE Like(_, _)
Like(p, s) ==
  IF p = <<>> THEN s = <<>>
  ELSE IF Head(p) = "%"
    THEN Like(Tail(p), s) \/ (s # <<>> /\ Like(p, Tail(s)))
  ELSE IF s = <<>> THEN FALSE
  ELSE /\ (Head(p) = "_" \/ LowerChar(Head(p)) = LowerChar(Head(s)))
       /\ Like(Tail(p), Tail(s))

\* WHERE name LIKE '%' || ?1 || '%'; NULL LIKE ... is NULL, and the row is
\* not selected.
like_filter(name, q) == name # NULL /\ Like(<<"%">> \o q \o <<"%">>, name)

\* --------------------------------------------------- SkimMatcherV2
\* CaseMatching::Smart, the default: case-sensitive iff the pattern has an
\* upper-case letter.
contains_upper(pattern) == \E i \in 1..Len(pattern) : IsUpperChar(pattern[i])

char_equal(a, b, case_sensitive) ==
  IF case_sensitive THEN a = b ELSE LowerChar(a) = LowerChar(b)

\* cheap_matches: each pattern character is found, in order, in the choice.
RECURSIVE cheap_matches(_, _, _)
cheap_matches(choice, pattern, case_sensitive) ==
  IF pattern = <<>> THEN TRUE
  ELSE IF choice = <<>> THEN FALSE
  ELSE IF char_equal(Head(choice), Head(pattern), case_sensitive)
    THEN cheap_matches(Tail(choice), Tail(pattern), case_sensitive)
    ELSE cheap_matches(Tail(choice), pattern, case_sensitive)

\* Whether matcher.fuzzy_match(choice, pattern) is Some(_).
fuzzy_matches(choice, pattern) ==
  cheap_matches(choice, pattern, contains_upper(pattern))

\* ------------------------------------------------------------- inputs
QueryPool == { <<>>, <<"a","b">>, <<"A","b">>, <<"_">> }

\* A row of searchIndex (name, type, path); a column may hold NULL.
Row(n, t, p) == [name |-> n, typ |-> t, path |-> p]

\* Rows with no NULL: one name under both kinds (names are not unique), a
\* name that differs from it in letter case only, and a name that holds the
\* letters a, b in order but not side by side.
WellFormedRows ==
  { Row(<<"a","b">>, <<"E","n","u","m">>, <<"p">>),
    Row(<<"a","b">>, <<"W","o","r","d">>, <<"p">>),
    Row(<<"A","b">>, <<"E","n","u","m">>, <<"p">>),
    Row(<<"A","c","b">>, <<"W","o","r","d">>, <<"p">>) }

MalformedRows ==
  { Row(NULL, <<"E","n","u","m">>, <<"p">>),
    Row(<<"a","b">>, NULL, <<"p">>),
    Row(<<"A","c","b">>, <<"W","o","r","d">>, NULL) }

RowPool == WellFormedRows \cup MalformedRows

\* The contents of the table, in the order the store enumerates them.
Stores == UNION { [1..n -> RowPool] : n \in 0..MaxRows }

IsMalformed(r) == r.name = NULL \/ r.typ = NULL \/ r.path = NULL

\* The states of Contents/Resources/docSet.dsidx under the docset directory.
\*   no_docset         the <name>.docset directory does not exist
\*   no_resources_dir  the docset exists, Contents/Resources does not
\*   missing           the directory exists, the index file does not
\*   corrupt           the file exists and is not a database
\*   no_table          the file is a database without a searchIndex table
\*                     (a zero-length file is one)
\*   ok                the file is a database with the searchIndex table
IndexStates == {"no_docset", "no_resources_dir", "missing", "corrupt", "no_table", "ok"}

FileExists(d) == d \in {"corrupt", "no_table", "ok"}

\* ---------------------------------------------------------------- state
VARIABLES
  dsidx,       \* the state of the index file on disk
  rows,        \* the rows of searchIndex, in enumeration order
  query,       \* the joined query string
  icons,       \* cli.icons
  scoreTab,    \* the score SkimMatcherV2 gives each name it matches
  pc,          \* the position of main / search_docset
  candidates,  \* the pre-filtered rows (fuzzy mode)
  slots,       \* per candidate, the result of the filter_map closure
  completed,   \* the candidates the workers have finished, in completion order
  matches,     \* the ranked result
  out,         \* the result lines printed so far
  result,      \* what search_docset returned: "none", "Ok", "Err"
  count,       \* the usize of Ok(count)
  noResults,   \* the "No results found" line was printed
  errLine,     \* an error line was written to stderr
  exited       \* "running", "success" (status 0), "failure" (status 1)

vars ==
  << dsidx, rows, query, icons, scoreTab, pc, candidates, slots, completed,
     matches, out, result, count, noResults, errLine, exited >>

\* The names the matcher is asked to score: those of the pre-filtered rows
\* that it matches.
ScoredNames(rs, q) ==
  IF q = <<>> THEN {}
  ELSE { rs[i].name : i \in { j \in 1..Len(rs) :
           like_filter(rs[j].name, q) /\ fuzzy_matches(rs[j].name, q) } }

Init ==
  /\ dsidx \in IndexStates
  /\ rows \in (IF dsidx = "ok" THEN Stores ELSE {<<>>})
  /\ query \in QueryPool
  /\ icons \in BOOLEAN
  /\ scoreTab \in [ScoredNames(rows, query) -> 0..MaxScore]
  /\ pc = "main"
  /\ candidates = <<>>
  /\ slots = <<>>
  /\ completed = <<>>
  /\ matches = <<>>
  /\ out = <<>>
  /\ result = "none"
  /\ count = 0
  /\ noResults = FALSE
  /\ errLine = FALSE
  /\ exited = "running"

\* ------------------------------------------------------------- helpers
\* docs_dir.join(path)
html_path(path) == <<"Contents/Resources/Documents/">> \o path

\* One entry of `matches`: (score, name, typ, docs_dir.join(path)).
Match(score, r) ==
  [score |-> score, name |-> r.name, typ |-> r.typ, html_path |-> html_path(r.path)]

\* matches.sort_by(|a, b| a.1.cmp(&b.1)): a stable sort by name, bytes compared.
RECURSIVE InsertByName(_, _)
InsertByName(sorted, x) ==
  IF sorted = <<>> THEN <<x>>
  ELSE IF StrLess(x.name, Head(sorted).name) THEN <<x>> \o sorted
  ELSE <<Head(sorted)>> \o InsertByName(Tail(sorted), x)

RECURSIVE sort_by_name(_)
sort_by_name(s) ==
  IF s = <<>> THEN <<>>
  ELSE InsertByName(sort_by_name(SubSeq(s, 1, Len(s) - 1)), s[Len(s)])

\* scored.sort_by(|a, b| b.0.cmp(&a.0)): a stable sort, descending by score.
RECURSIVE InsertByScore(_, _)
InsertByScore(sorted, x) ==
  IF sorted = <<>> THEN <<x>>
  ELSE IF Head(sorted).score < x.score THEN <<x>> \o sorted
  ELSE <<Head(sorted)>> \o InsertByScore(Tail(sorted), x)

RECURSIVE sort_by_score(_)
sort_by_score(s) ==
  IF s = <<>> THEN <<>>
  ELSE InsertByScore(sort_by_score(SubSeq(s, 1, Len(s) - 1)), s[Len(s)])

RECURSIVE Flatten(_)
Flatten(ss) == IF ss = <<>> THEN <<>> ELSE Head(ss) \o Flatten(Tail(ss))

\* The line println! writes for one entry of matches.
Line(decorate, m) ==
  << IF decorate THEN type_icon(m.typ) ELSE <<>>, m.name, m.typ, m.html_path >>

\* ------------------------------------------------------------- actions
\* main, Commands::Search, up to the call of search_docset: a docset
\* directory that does not exist is reported and the process exits with 1.
main_search ==
  /\ pc = "main"
  /\ IF dsidx = "no_docset"
       THEN /\ errLine' = TRUE
            /\ exited' = "failure"
            /\ pc' = "exit"
       ELSE /\ pc' = "open"
            /\ UNCHANGED <<errLine, exited>>
  /\ UNCHANGED << dsidx, rows, query, icons, scoreTab, candidates, slots,
                  completed, matches, out, result, count, noResults >>

\* Connection::open(&db_path)?: rusqlite opens with its default flags,
\* SQLITE_OPEN_READ_WRITE | SQLITE_OPEN_CREATE, so a missing file is created
\* (empty); it fails when the file cannot be opened or created.
search_docset_open ==
  /\ pc = "open"
  /\ IF dsidx = "no_resources_dir"
       THEN /\ result' = "Err"
            /\ pc' = "returned"
            /\ UNCHANGED dsidx
       ELSE /\ dsidx' = (IF dsidx = "missing" THEN "no_table" ELSE dsidx)
            /\ pc' = "prepare"
            /\ UNCHANGED result
  /\ UNCHANGED << rows, query, icons, scoreTab, candidates, slots, completed,
                  matches, out, count, noResults, errLine, exited >>

\* Whether conn.prepare("SELECT name, type, path FROM searchIndex ...")
\* succeeds on the opened file.
prepare_ok(d) == d = "ok"

\* A list mode that prints each row as it is read, and so has printed the
\* rows before a malformed one when it returns the error.
search_docset_list_streaming ==
  /\ pc = "prepare"
  /\ query = <<>>
  /\ IF ~prepare_ok(dsidx)
       THEN /\ result' = "Err"
            /\ pc' = "returned"
            /\ UNCHANGED <<matches, out>>
       ELSE IF \E i \in 1..Len(rows) : IsMalformed(rows[i])
         THEN LET bad == CHOOSE i \in 1..Len(rows) :
                           /\ IsMalformed(rows[i])
                           /\ \A j \in 1..(i - 1) : ~IsMalformed(rows[j])
              IN  /\ out' = [k \in 1..(bad - 1) |-> Line(icons, Match(0, rows[k]))]
                  /\ result' = "Err"
                  /\ pc' = "returned"
                  /\ UNCHANGED matches
         ELSE /\ matches' = sort_by_name([i \in 1..Len(rows) |-> Match(0, rows[i])])
              /\ pc' = "print"
              /\ UNCHANGED <<result, out>>
  /\ UNCHANGED << dsidx, rows, query, icons, scoreTab, candidates, slots,
                  completed, count, noResults, errLine, exited >>

\* List mode (query.is_empty()): prepare, query_map, collect into a
\* Result<Vec<_>, _> (the first row whose get::<_, String> fails makes the
\* whole collect an Err, returned by `?`), then sort_by name.
search_docset_list ==
  /\ pc = "prepare"
  /\ query = <<>>
  /\ IF ~prepare_ok(dsidx) \/ (\E i \in 1..Len(rows) : IsMalformed(rows[i]))
       THEN /\ result' = "Err"
            /\ pc' = "returned"
            /\ UNCHANGED matches
       ELSE /\ matches' = sort_by_name([i \in 1..Len(rows) |-> Match(0, rows[i])])
            /\ pc' = "print"
            /\ UNCHANGED result
  /\ UNCHANGED << dsidx, rows, query, icons, scoreTab, candidates, slots,
                  completed, out, count, noResults, errLine, exited >>

\* Fuzzy mode, the scan: prepare the LIKE query, query_map, collect the
\* selected rows into candidates (an Err on the first selected row with a NULL).
search_docset_query ==
  /\ pc = "prepare"
  /\ query # <<>>
  /\ LET selected == SelectSeq(rows, LAMBDA r : like_filter(r.name, query))
     IN  IF ~prepare_ok(dsidx) \/ (\E i \in 1..Len(selected) : IsMalformed(selected[i]))
           THEN /\ result' = "Err"
                /\ pc' = "returned"
                /\ UNCHANGED <<candidates, slots>>
           ELSE /\ candidates' = selected
                /\ slots' = [i \in 1..Len(selected) |-> <<>>]
                /\ pc' = "score"
                /\ UNCHANGED result
  /\ UNCHANGED << dsidx, rows, query, icons, scoreTab, completed, matches,
                  out, count, noResults, errLine, exited >>

\* matcher.fuzzy_match(name, query): Some(score) or None, as a sequence of
\* length one or zero.
fuzzy_match_or_zero(choice, pattern) ==
  IF fuzzy_matches(choice, pattern) THEN <<scoreTab[choice]>> ELSE <<0>>

fuzzy_match(choice, pattern) ==
  IF fuzzy_matches(choice, pattern) THEN <<scoreTab[choice]>> ELSE <<>>

\* The filter_map closure on one candidate:
\* fuzzy_match(name, query).map(|score| (score, name, typ, path)).
filter_map_closure(cand) ==
  LET m == fuzzy_match(cand.name, query)
  IN  IF m = <<>> THEN <<>> ELSE << [score |-> m[1], row |-> cand] >>

\* One rayon worker applies the closure to candidate i; the candidates are
\* taken in any order.
fuzzy_match_worker(i) ==
  /\ pc = "score"
  /\ i \in 1..Len(candidates)
  /\ \A k \in 1..Len(completed) : completed[k] # i
  /\ slots' = [slots EXCEPT ![i] = filter_map_closure(candidates[i])]
  /\ completed' = Append(completed, i)
  /\ UNCHANGED << dsidx, rows, query, icons, scoreTab, pc, candidates, matches,
                  out, result, count, noResults, errLine, exited >>

\* collect() of the parallel iterator into a Vec: rayon concatenates the
\* per-job results in the order of the source Vec, whatever order the jobs
\* finished in.
par_collect_completion_order(ss, order) ==
  Flatten([k \in 1..Len(order) |-> ss[order[k]]])

par_collect(ss, order) == Flatten(ss)

\* Once every candidate is scored: collect, sort_by score descending, and
\* join each path under docs_dir.
search_docset_rank ==
  /\ pc = "score"
  /\ Len(completed) = Len(candidates)
  /\ LET scored == sort_by_score(par_collect(slots, completed))
     IN  matches' = [k \in 1..Len(scored) |-> Match(scored[k].score, scored[k].row)]
  /\ pc' = "print"
  /\ UNCHANGED << dsidx, rows, query, icons, scoreTab, candidates, slots,
                  completed, out, result, count, noResults, errLine, exited >>

\* One iteration of `for (_, name, typ, html_path) in &matches`: println!.
search_docset_println ==
  /\ pc = "print"
  /\ Len(out) < Len(matches)
  /\ out' = Append(out, Line(icons, matches[Len(out) + 1]))
  /\ UNCHANGED << dsidx, rows, query, icons, scoreTab, pc, candidates, slots,
                  completed, matches, result, count, noResults, errLine, exited >>

\* Ok(matches.len())
search_docset_return ==
  /\ pc = "print"
  /\ Len(out) = Len(matches)
  /\ result' = "Ok"
  /\ count' = Len(matches)
  /\ pc' = "returned"
  /\ UNCHANGED << dsidx, rows, query, icons, scoreTab, candidates, slots,
                  completed, matches, out, noResults, errLine, exited >>

\* The match on search_docset's result in main.
main_match_result_silent ==
  /\ pc = "returned"
  /\ IF result = "Ok"
       THEN /\ exited' = "success"
            /\ UNCHANGED <<noResults, errLine>>
       ELSE /\ errLine' = TRUE
            /\ exited' = "failure"
            /\ UNCHANGED noResults
  /\ pc' = "exit"
  /\ UNCHANGED << dsidx, rows, query, icons, scoreTab, candidates, slots,
                  completed, matches, out, result, count >>

main_match_result ==
  /\ pc = "returned"
  /\ IF result = "Ok" /\ count = 0
       THEN /\ noResults' = TRUE
            /\ exited' = "success"
            /\ UNCHANGED errLine
       ELSE IF result = "Ok"
         THEN /\ exited' = "success"
              /\ UNCHANGED <<noResults, errLine>>
         ELSE /\ errLine' = TRUE
              /\ exited' = "failure"
              /\ UNCHANGED noResults
  /\ pc' = "exit"
  /\ UNCHANGED << dsidx, rows, query, icons, scoreTab, candidates, slots,
                  completed, matches, out, result, count >>

Next ==
  \/ main_search
  \/ search_docset_open
  \/ search_docset_list
  \/ search_docset_query
  \/ \E i \in 1..MaxRows : fuzzy_match_worker(i)
  \/ search_docset_rank
  \/ search_docset_println
  \/ search_docset_return
  \/ main_match_result

Spec == Init /\ [][Next]_vars

\* -------------------------------------------------- the search as a function
\* The lines a successful search_docset prints for a table that enumerates
\* rs, under the query, the icons flag and the scores of this run: the list
\* branch or the fuzzy branch, then the println! loop.
printed_for(rs) ==
  LET ranked ==
        IF query = <<>>
          THEN sort_by_name([i \in 1..Len(rs) |-> Match(0, rs[i])])
          ELSE LET selected == SelectSeq(rs, LAMBDA r : like_filter(r.name, query))
                   scored == sort_by_score(
                               Flatten([i \in 1..Len(selected) |->
                                          filter_map_closure(selected[i])]))
               IN  [k \in 1..Len(scored) |-> Match(scored[k].score, scored[k].row)]
  IN  [k \in 1..Len(ranked) |-> Line(icons, ranked[k])]

\* ------------------------------------------------------------ properties
WellFormedStore == \A i \in 1..Len(rows) : ~IsMalformed(rows[i])

\* The name, kind and path columns of a printed line.
LineName(l) == l[2]
LineKind(l) == l[3]
LinePath(l) == l[4]

\* C1: in list mode the printed lines are in ascending order of the
\* lowercased name: of two consecutive lines, the lowercased name of the
\* second is never below that of the first.  (Stated for tables without
\* malformed rows, where the search prints.)
C1_ListModeCaseInsensitiveOrder ==
  (query = <<>> /\ WellFormedStore) =>
    \A k \in 1..(Len(out) - 1) :
      ~StrLess(to_lowercase(LineName(out[k + 1])), to_lowercase(LineName(out[k])))

\* The pre-filtered rows the matcher accepts, in enumeration order.
EnumeratedHits ==
  SelectSeq(rows, LAMBDA r : like_filter(r.name, query) /\ fuzzy_matches(r.name, query))

\* s is e rearranged by descending score, rows of equal score keeping the
\* order they have in e: the i-th row of e stands after the rows of higher
\* score and the earlier rows of equal score, and before all others.
IsStableDescending(s, e) ==
  /\ Len(s) = Len(e)
  /\ \A i \in 1..Len(e) :
       LET before == { j \in 1..Len(e) :
                         \/ scoreTab[e[j].name] > scoreTab[e[i].name]
                         \/ /\ scoreTab[e[j].name] = scoreTab[e[i].name]
                            /\ j < i }
       IN  s[Cardinality(before) + 1] = Match(scoreTab[e[i].name], e[i])

\* C2: in fuzzy mode, whatever order the scoring workers finish in, the
\* ranked result is the enumerated hits in descending order of score, hits of
\* equal score in enumeration order; it is therefore a function of the
\* table, the query and the scores alone, and the printed lines follow it.
C2_FuzzyOrderStableAndDeterministic ==
  (query # <<>> /\ (pc = "print" \/ result = "Ok")) =>
    /\ IsStableDescending(matches, EnumeratedHits)
    /\ \A k \in 1..Len(out) : out[k] = Line(icons, matches[k])
    /\ \A k \in 1..(Len(matches) - 1) : matches[k].score >= matches[k + 1].score

\* Two hits of equal score were scored out of enumeration order, and ranked.
C2_Witness ==
  /\ query # <<>>
  /\ result = "Ok"
  /\ Len(completed) >= 2
  /\ completed[1] > completed[2]
  /\ Len(out) >= 2
  /\ matches[1].score = matches[2].score
  /\ matches[1] # matches[2]

\* The characters of q occur in name at increasing positions; letters are
\* compared exactly when q has an upper-case letter, and without regard to
\* case otherwise (the matcher's case rule).
OccursInOrder(q, name) ==
  LET exact == \E i \in 1..Len(q) : LowerChar(q[i]) # q[i]
  IN  \E f \in [1..Len(q) -> 1..Len(name)] :
        /\ \A i, j \in 1..Len(q) : i < j => f[i] < f[j]
        /\ \A i \in 1..Len(q) :
             IF exact THEN name[f[i]] = q[i]
                      ELSE LowerChar(name[f[i]]) = LowerChar(q[i])

\* C3: for a non-empty query, every ranked and every printed result has a
\* name in which the query's characters occur in order; a row the matcher
\* gives no score is not printed.
C3_PrintedNamesContainQueryInOrder ==
  query # <<>> =>
    /\ \A k \in 1..Len(out) : OccursInOrder(query, LineName(out[k]))
    /\ \A k \in 1..Len(matches) : OccursInOrder(query, matches[k].name)

\* A search that printed a result and dropped a pre-filtered row the matcher
\* did not accept.
C3_Witness ==
  /\ query # <<>>
  /\ exited = "success"
  /\ Len(out) >= 1
  /\ \E i \in 1..Len(candidates) : ~OccursInOrder(query, candidates[i].name)

\* C4: output is all or nothing.  A result line is printed only after the
\* scan, the scoring and the ranking are complete, and never in a run that
\* returns an error; a successful return has printed every ranked result;
\* when the index cannot be opened or queried no line is printed, and main
\* reports the error and exits with a non-zero status.
C4_OutputAllOrNothing ==
  /\ out # <<>> =>
       /\ result # "Err"
       /\ pc \in {"print", "returned", "exit"}
       /\ Len(completed) = Len(candidates)
       /\ Len(out) <= Len(matches)
  /\ result = "Err" => out = <<>>
  /\ result = "Ok" => (Len(out) = Len(matches) /\ count = Len(matches))
  /\ dsidx # "ok" =>
       /\ out = <<>>
       /\ ~noResults
       /\ result # "Ok"
       /\ pc = "exit" => (errLine /\ exited = "failure")
  /\ (pc = "exit" /\ result = "Err") => (errLine /\ exited = "failure")

\* The index file was missing, corrupt or without the table, and main exited.
C4_Witness ==
  /\ pc = "exit"
  /\ result = "Err"
  /\ dsidx \in {"corrupt", "no_table"}
  /\ out = <<>>

\* C5: a row with a NULL in name, type or path is skipped: the search of a
\* readable index succeeds and prints what it prints for the table without
\* its malformed rows.
C5_MalformedRowsSkipped ==
  (pc = "exit" /\ dsidx = "ok") =>
    /\ result = "Ok"
    /\ out = printed_for(SelectSeq(rows, LAMBDA r : ~IsMalformed(r)))

\* C6: in list mode the printed sequence is the same for every enumeration
\* order of the same rows, and prints every row once.  (Stated for tables
\* without malformed rows.)
C6_ListModeOrderIndependent ==
  (pc = "exit" /\ query = <<>> /\ dsidx = "ok" /\ WellFormedStore) =>
    /\ Len(out) = Len(rows)
    /\ \E p \in Permutations(1..Len(rows)) :
         \A k \in 1..Len(rows) : out[k] = Line(icons, Match(0, rows[p[k]]))
    /\ \A p \in Permutations(1..Len(rows)) :
         out = printed_for([k \in 1..Len(rows) |-> rows[p[k]]])

\* C7: an empty ranked result is a success, not an error: search_docset
\* returns Ok(0) with no line printed, main prints the "No results found"
\* line and exits with status 0; that line is printed only when no result
\* line was.  A table with zero rows, and a query whose pre-filter selects no
\* row, end this way.
C7_EmptyResultIsNoResultsPath ==
  /\ (pc = "print" /\ matches = <<>>) => out = <<>>
  /\ (result = "Ok" /\ matches = <<>>) => (count = 0 /\ out = <<>>)
  /\ (pc = "exit" /\ result = "Ok" /\ matches = <<>>) =>
       (noResults /\ ~errLine /\ exited = "success")
  /\ noResults => (out = <<>> /\ result = "Ok" /\ exited = "success")
  /\ (pc = "exit" /\ dsidx = "ok" /\ rows = <<>>) => noResults
  /\ (pc = "exit" /\ dsidx = "ok" /\ query # <<>>
        /\ \A i \in 1..Len(rows) : ~like_filter(rows[i].name, query)) => noResults

\* Every pre-filtered row was rejected by the matcher, and main printed the
\* "No results found" line.
C7_Witness ==
  /\ pc = "exit"
  /\ noResults
  /\ exited = "success"
  /\ candidates # <<>>
  /\ matches = <<>>

\* C8: with icons, the first column of a line is the table's glyph when the
\* lowercased kind is a key of the table, and otherwise the kind exactly as
\* stored.
C8_UnknownKindPassesThroughRaw ==
  icons =>
    \A k \in 1..Len(out) :
      LET typ == LineKind(out[k])
      IN  IF to_lowercase(typ) \in DOMAIN GlyphTable
            THEN out[k][1] = GlyphTable[to_lowercase(typ)]
            ELSE out[k][1] = typ

\* C9: no step of a search changes the index file or the rows of the table.
C9_StoreAndFilesUnchanged ==
  [][dsidx' = dsidx /\ rows' = rows]_vars

\* Whether a line for row r was printed.
Printed(r) ==
  \E k \in 1..Len(out) :
    /\ LineName(out[k]) = r.name
    /\ LineKind(out[k]) = r.typ
    /\ LinePath(out[k]) = html_path(r.path)

\* C10: in fuzzy mode a row is printed if and only if its name passes the
\* LIKE pre-filter and the fuzzy matcher.
C10_PrintedIffPrefilterAndMatcher ==
  (pc = "exit" /\ query # <<>> /\ dsidx = "ok") =>
    \A i \in 1..Len(rows) :
      Printed(rows[i]) <=>
        (like_filter(rows[i].name, query) /\ fuzzy_matches(rows[i].name, query))

====
